---- MODULE Spec2Model ----
(***************************************************************************)
(* Frequency-domain pattern removal of scripts/remove_texture_pattern.py. *)
(*                                                                         *)
(* Two state machines share the definitions of this module:               *)
(*   Spec        mask construction of fft_filter_channel (peak notch) and  *)
(*               fft_filter_channel_lines (line band), one action per      *)
(*               stage of the function, started from a magnitude grid;     *)
(*   SpecFilter  fft_remove_pattern: the per-channel loop, each channel    *)
(*               run through the transform, the mask and the inverse.      *)
(*                                                                         *)
(* Real numbers are exact: a mask value is a reduced fraction <<n, d>>,    *)
(* a magnitude is kept as its square (an integer), a spectrum bin is an    *)
(* element of Z[zeta], zeta a primitive 12th root of unity.                *)
(***************************************************************************)
EXTENDS Integers, Sequences, FiniteSets, TLC

VARIABLES
    h, w,                   \* channel.shape
    method,                 \* "peaks" | "lines"
    threshold_percentile,   \* percent, 0..100
    notch_radius,
    protect_center,
    line_width,
    attenuation,            \* fraction <<n, d>> in 0..1
    magnitude,              \* np.abs(f_shift), squared: [Bins -> Nat]
    threshold,              \* np.percentile(...), see Percentile
    peaks,                  \* set of bins: magnitude > threshold, outside the disc
    mask,                   \* [Bins -> fraction]
    pc,                     \* position in the channel filter
    image,                  \* fft_remove_pattern's input: sequence of channels
    gray,                   \* TRUE: len(image.shape) == 2
    result,                 \* fft_remove_pattern's result array
    c                       \* loop counter of fft_remove_pattern

vars == <<h, w, method, threshold_percentile, notch_radius, protect_center,
          line_width, attenuation, magnitude, threshold, peaks, mask, pc,
          image, gray, result, c>>

(***************************************************************************)
(* Bounds of the model.                                                    *)
(***************************************************************************)
MaxPeakDim == 4        \* peak policy: grids up to MaxPeakDim x MaxPeakDim
MaxLineDim == 7        \* line policy: grids up to MaxLineDim x MaxLineDim
MaxProtect == 1        \* protect_center in 0..MaxProtect
MaxSpikes == 1         \* bins of the magnitude grid raised above the floor
MaxSample == 1         \* SpecFilter: image samples in 0..MaxSample
MaxChannels == 2       \* SpecFilter: colour images of 1..MaxChannels channels

NotchRadii == {0, 1, 2}
LineWidths == {0, 1, 2}
Percentiles == {0, 50, 60, 100}
Attenuations == {<<0, 1>>, <<1, 2>>, <<99, 100>>, <<1, 1>>}

(***************************************************************************)
(* Exact arithmetic on non-negative fractions.                             *)
(***************************************************************************)
RECURSIVE GCD(_, _)
GCD(a, b) == IF b = 0 THEN a ELSE GCD(b, a % b)

Abs(x) == IF x < 0 THEN -x ELSE x

Frac(n, d) == LET g == GCD(Abs(n), d) IN <<n \div g, d \div g>>

One == <<1, 1>>
Zero == <<0, 1>>

\* what a division by zero leaves behind (the exception, or inf/nan)
DivByZero == <<0, 0>>

\* n / d
Div(n, d) == IF d = 0 THEN DivByZero ELSE Frac(n, d)

FMul(p, q) ==
    IF p = DivByZero \/ q = DivByZero THEN DivByZero
    ELSE Frac(p[1] * q[1], p[2] * q[2])

FLe(p, q) == p[1] * q[2] <= q[1] * p[2]

\* 1.0 - x
OneMinus(x) == IF x = DivByZero THEN DivByZero ELSE Frac(x[2] - x[1], x[2])

(***************************************************************************)
(* The frequency grid.                                                     *)
(***************************************************************************)
BinsOf(hh, ww) == (0 .. hh - 1) \X (0 .. ww - 1)

Bins == BinsOf(h, w)

center_y == h \div 2
center_x == w \div 2

Dist2(dy, dx) == dy * dy + dx * dx

\* center_mask = ((y - center_y)**2 + (x - center_x)**2) <= protect_center**2
CenterMaskOf(hh, ww, pcen) ==
    {b \in BinsOf(hh, ww) :
        Dist2(b[1] - hh \div 2, b[2] - ww \div 2) <= pcen * pcen}

center_mask == CenterMaskOf(h, w, protect_center)

\* mask = np.ones((h, w))
Ones(hh, ww) == [b \in BinsOf(hh, ww) |-> One]

(***************************************************************************)
(* Peak-notch policy: fft_filter_channel.                                  *)
(***************************************************************************)
\* magnitude_for_threshold = magnitude.copy(); magnitude_for_threshold[center_mask] = 0
MagnitudeForThreshold(hh, ww, mag, pcen) ==
    [b \in BinsOf(hh, ww) |-> IF b \in CenterMaskOf(hh, ww, pcen) THEN 0 ELSE mag[b]]

\* k-th smallest (0-based) value of grid g
KthSmallest(g, k) ==
    CHOOSE v \in {g[b] : b \in DOMAIN g} :
        /\ Cardinality({b \in DOMAIN g : g[b] <= v}) >= k + 1
        /\ Cardinality({b \in DOMAIN g : g[b] < v}) <= k

\* np.percentile(g, q), linear interpolation between the two order statistics
\* around the virtual index (n - 1) * q / 100.  The result is the number
\*   (1 - gn/gd) * sqrt(lo) + (gn/gd) * sqrt(hi)
\* (the grid holds squared magnitudes).
Percentile(g, q) ==
    LET n == Cardinality(DOMAIN g)
        virt == (n - 1) * q
        prev == virt \div 100
        next == IF prev + 1 > n - 1 THEN n - 1 ELSE prev + 1
        gg == GCD(virt % 100, 100)
    IN  [lo |-> KthSmallest(g, prev), hi |-> KthSmallest(g, next),
         gn |-> (virt % 100) \div gg, gd |-> 100 \div gg]

\* magnitude > threshold, for a squared magnitude m2:
\*   gd*sqrt(m2) > (gd-gn)*sqrt(lo) + gn*sqrt(hi)
Above(m2, t) ==
    LET L == t.gd * t.gd * m2 - (t.gd - t.gn) * (t.gd - t.gn) * t.lo - t.gn * t.gn * t.hi
        R == 2 * (t.gd - t.gn) * t.gn
    IN  L > 0 /\ L * L > R * R * t.lo * t.hi

\* peaks = magnitude > threshold; peaks[center_mask] = False
PeaksOf(hh, ww, mag, t, pcen) ==
    {b \in BinsOf(hh, ww) : Above(mag[b], t)} \ CenterMaskOf(hh, ww, pcen)

\* variant: dist ** 2 / notch_radius (the square taken before the division only)
NotchFactor_Misplaced(d2, r) == IF d2 > 0 THEN Div(d2, r) ELSE Zero

\* variant: no "if dist > 0 else 0"
NotchFactor_NoGuard(d2, r) == Div(d2, r * r)

\* (dist / notch_radius) ** 2 if dist > 0 else 0
NotchFactor(d2, r) == IF d2 > 0 THEN Div(d2, r * r) ELSE Zero

\* variant: only "if ny < h and nx < w": a negative index counts from the end
RECURSIVE WrapProduct(_, _, _)
WrapProduct(v, hits, r) ==
    IF hits = {} THEN v
    ELSE LET d == CHOOSE e \in hits : TRUE
         IN  WrapProduct(FMul(v, NotchFactor(Dist2(d[1], d[2]), r)), hits \ {d}, r)

NotchAround_Wrap(hh, ww, m, p, r) ==
    [b \in BinsOf(hh, ww) |->
        WrapProduct(m[b],
                    {d \in (-r .. r) \X (-r .. r) :
                        /\ p[1] + d[1] < hh /\ (p[1] + d[1] + r * hh) % hh = b[1]
                        /\ p[2] + d[2] < ww /\ (p[2] + d[2] + r * ww) % ww = b[2]
                        /\ Dist2(d[1], d[2]) <= r * r},
                    r)]

\* the dy, dx loops around one peak p, applied to mask m
NotchAround(hh, ww, m, p, r) ==
    [b \in BinsOf(hh, ww) |->
        LET dy == b[1] - p[1]
            dx == b[2] - p[2]
        IN  IF /\ dy \in -r .. r
               /\ dx \in -r .. r
               /\ Dist2(dy, dx) <= r * r
            THEN FMul(m[b], NotchFactor(Dist2(dy, dx), r))
            ELSE m[b]]

\* for py, px in zip(*np.where(peaks)): ...
RECURSIVE NotchAll(_, _, _, _, _)
NotchAll(hh, ww, m, ps, r) ==
    IF ps = {} THEN m
    ELSE LET p == CHOOSE q \in ps :
                    \A o \in ps : q[1] < o[1] \/ (q[1] = o[1] /\ q[2] <= o[2])
         IN  NotchAll(hh, ww, NotchAround(hh, ww, m, p, r), ps \ {p}, r)

\* the mask fft_filter_channel multiplies the spectrum by
PeakMask(hh, ww, mag, q, r, pcen) ==
    LET t == Percentile(MagnitudeForThreshold(hh, ww, mag, pcen), q)
    IN  NotchAll(hh, ww, Ones(hh, ww), PeaksOf(hh, ww, mag, t, pcen), r)

(***************************************************************************)
(* Line-band policy: fft_filter_channel_lines.                             *)
(***************************************************************************)
\* variant: the falloff divided by the whole band width
Reduction_WrongDivisor(d, lw, att) ==
    LET dist == Abs(d)
    IN  IF dist <= lw THEN att
        ELSE LET falloff == IF dist < lw * 2 THEN Div(lw * 2 - dist, lw * 2) ELSE Zero
             IN  FMul(att, falloff)

\* reduction for offset d from the centre line (line_width > 0)
Reduction(d, lw, att) ==
    LET dist == Abs(d)
    IN  IF dist <= lw THEN att
        ELSE LET falloff == IF dist < lw * 2 THEN Div(lw * 2 - dist, lw) ELSE Zero
             IN  FMul(att, falloff)

\* for dy in range(-line_width * 2, line_width * 2 + 1), from offset d on
RECURSIVE RowLoop(_, _, _, _, _, _)
RowLoop(hh, ww, m, d, lw, att) ==
    IF d > lw * 2 THEN m
    ELSE LET y_idx == hh \div 2 + d
             m2 == IF 0 <= y_idx /\ y_idx < hh
                   THEN [b \in BinsOf(hh, ww) |->
                            IF b[1] = y_idx
                            THEN FMul(m[b], OneMinus(Reduction(d, lw, att)))
                            ELSE m[b]]
                   ELSE m
         IN  RowLoop(hh, ww, m2, d + 1, lw, att)

RECURSIVE ColLoop(_, _, _, _, _, _)
ColLoop(hh, ww, m, d, lw, att) ==
    IF d > lw * 2 THEN m
    ELSE LET x_idx == ww \div 2 + d
             m2 == IF 0 <= x_idx /\ x_idx < ww
                   THEN [b \in BinsOf(hh, ww) |->
                            IF b[2] = x_idx
                            THEN FMul(m[b], OneMinus(Reduction(d, lw, att)))
                            ELSE m[b]]
                   ELSE m
         IN  ColLoop(hh, ww, m2, d + 1, lw, att)

\* variant: the row loop without "if line_width > 0"
FilterRowsOf_NoGuard(hh, ww, m, lw, att) == RowLoop(hh, ww, m, -(lw * 2), lw, att)

\* if line_width > 0: for dy in range(...)
FilterRowsOf(hh, ww, m, lw, att) ==
    IF lw > 0 THEN RowLoop(hh, ww, m, -(lw * 2), lw, att) ELSE m

\* if line_width > 0: for dx in range(...)
FilterColsOf(hh, ww, m, lw, att) ==
    IF lw > 0 THEN ColLoop(hh, ww, m, -(lw * 2), lw, att) ELSE m

\* mask[center_mask] = 1.0
RestoreCenterOf(hh, ww, m, pcen) ==
    [b \in BinsOf(hh, ww) |-> IF b \in CenterMaskOf(hh, ww, pcen) THEN One ELSE m[b]]

\* the mask fft_filter_channel_lines multiplies the spectrum by
LineMask(hh, ww, lw, pcen, att) ==
    RestoreCenterOf(hh, ww,
        FilterColsOf(hh, ww, FilterRowsOf(hh, ww, Ones(hh, ww), lw, att), lw, att),
        pcen)

(***************************************************************************)
(* The transform.  A spectrum bin is an element a0 + a1 z + a2 z^2 + a3 z^3 *)
(* of Z[z], z = exp(i pi / 6), kept as <<a0, a1, a2, a3>> over a common     *)
(* denominator.  z^4 = z^2 - 1, so every root of unity of order 1, 2, 3, 4  *)
(* (a grid side that divides 12) is a power of z with integer coordinates.  *)
(***************************************************************************)
ZPow(k) ==
    CASE k % 12 = 0  -> <<1, 0, 0, 0>>
      [] k % 12 = 1  -> <<0, 1, 0, 0>>
      [] k % 12 = 2  -> <<0, 0, 1, 0>>
      [] k % 12 = 3  -> <<0, 0, 0, 1>>
      [] k % 12 = 4  -> <<-1, 0, 1, 0>>
      [] k % 12 = 5  -> <<0, -1, 0, 1>>
      [] k % 12 = 6  -> <<-1, 0, 0, 0>>
      [] k % 12 = 7  -> <<0, -1, 0, 0>>
      [] k % 12 = 8  -> <<0, 0, -1, 0>>
      [] k % 12 = 9  -> <<0, 0, 0, -1>>
      [] k % 12 = 10 -> <<1, 0, -1, 0>>
      [] k % 12 = 11 -> <<0, 1, 0, -1>>

\* u * z^k, u an element of Z[z]: multiplication by z is
\* <<a0, a1, a2, a3>> -> <<-a3, a0, a1 + a3, a2>>
RECURSIVE ZTimesPow(_, _)
ZTimesPow(u, k) ==
    IF k % 12 = 0 THEN u
    ELSE IF k % 12 >= 6 THEN ZTimesPow(<<-u[1], -u[2], -u[3], -u[4]>>, (k % 12) - 6)
    ELSE ZTimesPow(<<-u[4], u[1], u[2] + u[4], u[3]>>, (k % 12) - 1)

ZAdd(u, v) == <<u[1] + v[1], u[2] + v[2], u[3] + v[3], u[4] + v[4]>>
ZScale(n, u) == <<n * u[1], n * u[2], n * u[3], n * u[4]>>
ZZero == <<0, 0, 0, 0>>

\* bins in row-major order
BinAt(i, ww) == <<i \div ww, i % ww>>

\* sum over the bins i .. hh*ww-1 of term[bin]
RECURSIVE ZSum(_, _, _, _)
ZSum(term, i, hh, ww) ==
    IF i >= hh * ww THEN ZZero
    ELSE ZAdd(term[BinAt(i, ww)], ZSum(term, i + 1, hh, ww))

\* the angle of exp(-+2 pi i (k m / hh + l n / ww)) in twelfths of a turn
Turn(k, m, hh, l, n, ww) == (12 \div hh) * k * m + (12 \div ww) * l * n

\* np.fft.fft2 of an integer grid: F[k, l] = sum x[m, n] exp(-2 pi i (km/h + ln/w))
fft2(x, hh, ww) ==
    [kl \in BinsOf(hh, ww) |->
        ZSum([mn \in BinsOf(hh, ww) |->
                 ZScale(x[mn], ZPow(12 * hh * ww - Turn(kl[1], mn[1], hh, kl[2], mn[2], ww)))],
             0, hh, ww)]

\* np.fft.ifft2, times h*w: the caller divides
ifft2_scaled(F, hh, ww) ==
    [mn \in BinsOf(hh, ww) |->
        ZSum([kl \in BinsOf(hh, ww) |->
                 ZTimesPow(F[kl], Turn(kl[1], mn[1], hh, kl[2], mn[2], ww))],
             0, hh, ww)]

\* np.fft.fftshift: every axis rolled by n // 2
fftshift(F, hh, ww) ==
    [b \in BinsOf(hh, ww) |->
        F[<<(b[1] - hh \div 2 + hh) % hh, (b[2] - ww \div 2 + ww) % ww>>]]

\* variant: fftshift called where ifftshift is needed
ifftshift_AsFftshift(F, hh, ww) == fftshift(F, hh, ww)

\* np.fft.ifftshift: every axis rolled by -(n // 2)
ifftshift(F, hh, ww) ==
    [b \in BinsOf(hh, ww) |->
        F[<<(b[1] + hh \div 2) % hh, (b[2] + ww \div 2) % ww>>]]

\* np.abs, squared: |a0 + a1 z + a2 z^2 + a3 z^3|^2
\*   = a0^2 + a1^2 + a2^2 + a3^2 + a0 a2 + a1 a3 + sqrt(3) (a0 a1 + a1 a2 + a2 a3);
\* the sqrt(3) part is 0 on grids whose sides all divide 4 or all divide 6
Abs2(u) == u[1] * u[1] + u[2] * u[2] + u[3] * u[3] + u[4] * u[4] + u[1] * u[3] + u[2] * u[4]
Abs2Irrational(u) == u[1] * u[2] + u[2] * u[3] + u[3] * u[4]

\* magnitude = np.abs(f_shift)
MagnitudeOf(fs, hh, ww) == [b \in BinsOf(hh, ww) |-> Abs2(fs[b])]

LCM(a, b) == (a \div GCD(a, b)) * b

RECURSIVE CommonDen(_, _, _, _)
CommonDen(m, i, hh, ww) ==
    IF i >= hh * ww THEN 1
    ELSE LCM(m[BinAt(i, ww)][2], CommonDen(m, i + 1, hh, ww))

\* a real number (u + v sqrt(3)) / d in lowest terms
Real(u, v, d) ==
    LET g == GCD(GCD(Abs(u), Abs(v)), d) IN <<u \div g, v \div g, d \div g>>

\* np.real(z / d): Re z = a0 + a1 sqrt(3)/2 + a2 / 2
RealPart(z, d) == Real(2 * z[1] + z[3], z[2], 2 * d)

\* f_filtered = f_shift * mask; img_back = np.real(np.fft.ifft2(np.fft.ifftshift(f_filtered)))
ApplyMask(fs, m, hh, ww) ==
    LET D == CommonDen(m, 0, hh, ww)
        f_filtered == [b \in BinsOf(hh, ww) |-> ZScale(m[b][1] * (D \div m[b][2]), fs[b])]
        back == ifft2_scaled(ifftshift(f_filtered, hh, ww), hh, ww)
    IN  [b \in BinsOf(hh, ww) |-> RealPart(back[b], D * hh * ww)]

\* f_shift = np.fft.fftshift(np.fft.fft2(channel))
Forward(channel, hh, ww) == fftshift(fft2(channel, hh, ww), hh, ww)

\* fft_filter_channel(channel, threshold_percentile, notch_radius, protect_center)
fft_filter_channel(channel, hh, ww, q, r, pcen) ==
    LET f_shift == Forward(channel, hh, ww)
    IN  ApplyMask(f_shift, PeakMask(hh, ww, MagnitudeOf(f_shift, hh, ww), q, r, pcen), hh, ww)

\* fft_filter_channel_lines(channel, line_width, protect_center, attenuation)
fft_filter_channel_lines(channel, hh, ww, lw, pcen, att) ==
    ApplyMask(Forward(channel, hh, ww), LineMask(hh, ww, lw, pcen, att), hh, ww)

(***************************************************************************)
(* Magnitude grids of a real channel.  f_shift is the centred transform of *)
(* a real grid, so |f_shift| is symmetric about the DC bin: the bin at     *)
(* offset d from (h//2, w//2) and the bin at offset -d (mod the grid size) *)
(* hold the same magnitude.  Every symmetric non-negative grid is the      *)
(* magnitude of some real channel.                                         *)
(***************************************************************************)
Partner(hh, ww, b) ==
    <<(2 * (hh \div 2) - b[1] + hh) % hh, (2 * (ww \div 2) - b[2] + ww) % ww>>

\* squared magnitudes: floor everywhere, 4 on the spikes and their partners,
\* 9 on the DC bin
SpikeGrid(hh, ww, floor, S) ==
    [b \in BinsOf(hh, ww) |->
        IF b = <<hh \div 2, ww \div 2>> THEN 9
        ELSE IF b \in S \/ Partner(hh, ww, b) \in S THEN 4
        ELSE floor]

\* the sets of at most k bins
RECURSIVE SpikeSets(_, _, _)
SpikeSets(hh, ww, k) ==
    IF k = 0 THEN {{}}
    ELSE LET fewer == SpikeSets(hh, ww, k - 1)
         IN  fewer \cup {S \cup {b} : S \in fewer, b \in BinsOf(hh, ww)}

MagnitudeGrids(hh, ww) ==
    {SpikeGrid(hh, ww, floor, S) : floor \in {0, 1}, S \in SpikeSets(hh, ww, MaxSpikes)}

NotUsed == <<>>

(***************************************************************************)
(* Spec: the mask construction of one channel.                             *)
(***************************************************************************)
InitPeaks ==
    /\ method = "peaks"
    /\ h \in 1 .. MaxPeakDim
    /\ w \in 1 .. MaxPeakDim
    /\ threshold_percentile \in Percentiles
    /\ notch_radius \in NotchRadii
    /\ protect_center \in 0 .. MaxProtect
    /\ line_width = 0
    /\ attenuation = Zero
    /\ magnitude \in MagnitudeGrids(h, w)
    /\ pc = "threshold"

InitLines ==
    /\ method = "lines"
    /\ h \in 1 .. MaxLineDim
    /\ w \in 1 .. MaxLineDim
    /\ threshold_percentile = 0
    /\ notch_radius = 0
    /\ protect_center \in 0 .. MaxProtect
    /\ line_width \in LineWidths
    /\ attenuation \in Attenuations
    /\ magnitude = NotUsed
    /\ pc = "rows"

Init ==
    /\ InitPeaks \/ InitLines
    /\ threshold = NotUsed
    /\ peaks = {}
    /\ mask = Ones(h, w)
    /\ image = NotUsed
    /\ gray = TRUE
    /\ result = NotUsed
    /\ c = 0

config == <<h, w, method, threshold_percentile, notch_radius, protect_center,
            line_width, attenuation, magnitude>>
outer == <<image, gray, result, c>>

\* threshold = np.percentile(magnitude_for_threshold, threshold_percentile)
ComputeThreshold ==
    /\ pc = "threshold"
    /\ threshold' = Percentile(MagnitudeForThreshold(h, w, magnitude, protect_center),
                               threshold_percentile)
    /\ pc' = "peaks"
    /\ UNCHANGED <<config, outer, peaks, mask>>

\* peaks = magnitude > threshold; peaks[center_mask] = False
FindPeaks ==
    /\ pc = "peaks"
    /\ peaks' = PeaksOf(h, w, magnitude, threshold, protect_center)
    /\ pc' = "notch"
    /\ UNCHANGED <<config, outer, threshold, mask>>

\* the notch loop over peak_coords
NotchFilter ==
    /\ pc = "notch"
    /\ mask' = NotchAll(h, w, mask, peaks, notch_radius)
    /\ pc' = "done"
    /\ UNCHANGED <<config, outer, threshold, peaks>>

\* the horizontal band
FilterRows ==
    /\ pc = "rows"
    /\ mask' = FilterRowsOf(h, w, mask, line_width, attenuation)
    /\ pc' = "cols"
    /\ UNCHANGED <<config, outer, threshold, peaks>>

\* the vertical band
FilterCols ==
    /\ pc = "cols"
    /\ mask' = FilterColsOf(h, w, mask, line_width, attenuation)
    /\ pc' = "restore"
    /\ UNCHANGED <<config, outer, threshold, peaks>>

\* mask[center_mask] = 1.0
RestoreCenter ==
    /\ pc = "restore"
    /\ mask' = RestoreCenterOf(h, w, mask, protect_center)
    /\ pc' = "done"
    /\ UNCHANGED <<config, outer, threshold, peaks>>

Next ==
    \/ ComputeThreshold
    \/ FindPeaks
    \/ NotchFilter
    \/ FilterRows
    \/ FilterCols
    \/ RestoreCenter

Spec == Init /\ [][Next]_vars

(***************************************************************************)
(* SpecFilter: fft_remove_pattern.  An array is a function from its index  *)
(* tuples, <<y, x>> for a grayscale image and <<y, x, ch>> for a colour    *)
(* one; a filtered sample is a real <<u, v, d>> = (u + v sqrt(3)) / d.     *)
(***************************************************************************)
\* grid sides that divide 12 (the transform stays in Z[z])
FilterDims == {1, 2, 3, 4}

\* no grid mixes a side of 3 with a side of 4: the squared magnitudes the peak
\* policy compares stay integers
FilterShapes == {s \in FilterDims \X FilterDims : s[1] * s[2] < 12}

\* channel contents: 0 a flat grid, 1 vertical stripes, 2 a ramp, 3 one lit sample
Pattern(k, a, hh, ww) ==
    [b \in BinsOf(hh, ww) |->
        CASE k = 0 -> a
          [] k = 1 -> IF b[2] % 2 = 0 THEN a ELSE 0
          [] k = 2 -> (b[1] * ww + b[2]) % (a + 1)
          [] k = 3 -> IF b = <<hh - 1, ww - 1>> THEN a ELSE 0]

\* np.stack(chs, axis=2)
Stack(chs, hh, ww, n) ==
    [i \in (0 .. hh - 1) \X (0 .. ww - 1) \X (0 .. n - 1) |-> chs[i[3] + 1][<<i[1], i[2]>>]]

\* a grayscale image is one pattern; the channels of a colour image hold
\* successive patterns, each with its own amplitude
Images(hh, ww, isGray) ==
    IF isGray THEN {Pattern(k, a, hh, ww) : k \in 0 .. 3, a \in 1 .. MaxSample}
    ELSE UNION {{Stack([j \in 1 .. n |-> Pattern((k + j - 1) % 4, amp[j], hh, ww)], hh, ww, n) :
                    k \in 0 .. 3, amp \in [1 .. n -> 1 .. MaxSample]} :
                n \in 1 .. MaxChannels}

InitFilter ==
    /\ method \in {"peaks", "lines"}
    /\ \E s \in FilterShapes : h = s[1] /\ w = s[2]
    /\ threshold_percentile \in IF method = "peaks" THEN {50, 100} ELSE {0}
    /\ notch_radius = IF method = "peaks" THEN 1 ELSE 0
    /\ protect_center = 0
    /\ line_width \in IF method = "lines" THEN {0, 1} ELSE {0}
    /\ attenuation = IF method = "lines" THEN <<1, 2>> ELSE Zero
    /\ gray \in BOOLEAN
    /\ image \in Images(h, w, gray)
    /\ magnitude = NotUsed
    /\ threshold = NotUsed
    /\ peaks = {}
    /\ mask = NotUsed
    /\ result = NotUsed
    /\ c = 0
    /\ pc = "start"

\* channels = image.shape[2]
channels == Cardinality({i[3] : i \in DOMAIN image})

\* image[:, :, ch]
ChannelOf(img, ch) == [b \in Bins |-> img[<<b[1], b[2], ch>>]]

\* variant: result[:, :, 0] = ... whatever the loop counter
SetChannel_First(res, ch, filtered) ==
    [i \in DOMAIN res |-> IF i[3] = 0 THEN filtered[<<i[1], i[2]>>] ELSE res[i]]

\* result[:, :, ch] = filtered
SetChannel(res, ch, filtered) ==
    [i \in DOMAIN res |-> IF i[3] = ch THEN filtered[<<i[1], i[2]>>] ELSE res[i]]

\* the branch on method, for one channel
FilterOne(channel) ==
    IF method = "lines"
    THEN fft_filter_channel_lines(channel, h, w, line_width, protect_center, attenuation)
    ELSE fft_filter_channel(channel, h, w, threshold_percentile, notch_radius, protect_center)

\* the mask that branch builds
MaskOfChannel(channel) ==
    IF method = "lines"
    THEN LineMask(h, w, line_width, protect_center, attenuation)
    ELSE PeakMask(h, w, MagnitudeOf(Forward(channel, h, w), h, w),
                  threshold_percentile, notch_radius, protect_center)

inner == <<magnitude, threshold, peaks>>
params == <<h, w, method, threshold_percentile, notch_radius, protect_center,
            line_width, attenuation, image, gray>>

\* if len(image.shape) == 2: return fft_filter_channel...(image.astype(np.float64), ...)
FilterGray ==
    /\ pc = "start"
    /\ gray
    /\ result' = FilterOne(image)
    /\ mask' = MaskOfChannel(image)
    /\ pc' = "returned"
    /\ UNCHANGED <<params, inner, c>>

\* result = np.zeros_like(image, dtype=np.float64); channels = image.shape[2]
AllocResult ==
    /\ pc = "start"
    /\ ~gray
    /\ result' = [i \in DOMAIN image |-> Real(0, 0, 1)]
    /\ c' = 0
    /\ pc' = "loop"
    /\ UNCHANGED <<params, inner, mask>>

\* one pass of "for c in range(channels)"
FilterChannelStep ==
    /\ pc = "loop"
    /\ c < channels
    /\ result' = SetChannel(result, c, FilterOne(ChannelOf(image, c)))
    /\ mask' = MaskOfChannel(ChannelOf(image, c))
    /\ c' = c + 1
    /\ UNCHANGED <<params, inner, pc>>

\* return result
ReturnResult ==
    /\ pc = "loop"
    /\ c >= channels
    /\ pc' = "returned"
    /\ UNCHANGED <<params, inner, mask, result, c>>

NextFilter ==
    \/ FilterGray
    \/ AllocResult
    \/ FilterChannelStep
    \/ ReturnResult

SpecFilter == InitFilter /\ [][NextFilter]_vars

(***************************************************************************)
(* Properties of the mask construction (Spec).                             *)
(***************************************************************************)
Done == pc = "done"
DC == <<center_y, center_x>>
Outside == Bins \ center_mask

\* peaks whose plain grid distance to bin b is <= notch_radius
Near(b) == {p \in peaks : Dist2(b[1] - p[1], b[2] - p[2]) <= notch_radius * notch_radius}

RECURSIVE NotchProduct(_, _)
NotchProduct(b, ps) ==
    IF ps = {} THEN One
    ELSE LET p == CHOOSE q \in ps : TRUE
         IN  FMul(Frac(Dist2(b[1] - p[1], b[2] - p[2]), notch_radius * notch_radius),
                  NotchProduct(b, ps \ {p}))

\* C1: DC preservation: for both policies the finished mask is 1.0 at the
\* DC bin (h//2, w//2).
C1_DCPreserved == Done => mask[DC] = One

\* C2: protect-center invariant: for both policies every bin of the
\* protect-center disc has value exactly 1.0 in the finished mask.
C2_DiscIsOne == Done => \A b \in center_mask : mask[b] = One

\* C3: mask boundedness: at every stage of either policy every mask value is
\* a number in the closed range [0, 1].
C3_MaskBounded ==
    \A b \in Bins : mask[b] # DivByZero /\ FLe(Zero, mask[b]) /\ FLe(mask[b], One)

\* a bin strictly between 0 and 1 that two or more notches have multiplied
C3_Witness ==
    /\ Done /\ method = "peaks"
    /\ \E b \in Bins : Cardinality(Near(b)) >= 2 /\ mask[b] # Zero /\ mask[b] # One

\* C6: peak-notch mask value, notch_radius >= 1: outside the protect-center
\* disc the mask of a bin is the product, over the peaks within notch_radius
\* of it (plain grid distance), of (d / notch_radius)^2; a peak bin has mask
\* 0 and a bin farther than notch_radius from every peak has mask 1.
C6_NotchProduct ==
    (Done /\ method = "peaks" /\ notch_radius >= 1) =>
        \A b \in Outside :
            /\ mask[b] = NotchProduct(b, Near(b))
            /\ b \in peaks => mask[b] = Zero
            /\ Near(b) = {} => mask[b] = One

\* two notches overlap on a bin outside the disc, and a notch square reaches
\* past the border while the opposite edge stays untouched
C6_Witness ==
    /\ Done /\ method = "peaks" /\ notch_radius = 2
    /\ \E b \in Outside : Cardinality(Near(b)) >= 2 /\ mask[b] # Zero /\ mask[b] # One
    /\ \E p \in peaks : \E b \in Outside :
          p[2] = 0 /\ b[2] = w - 1 /\ b[1] = p[1] /\ w >= 4 /\ mask[b] = One

\* the claim's closed form of the band factor at offset d
R(d) ==
    IF Abs(d) <= line_width THEN OneMinus(attenuation)
    ELSE IF Abs(d) < 2 * line_width
         THEN OneMinus(FMul(attenuation, Frac(2 * line_width - Abs(d), line_width)))
         ELSE One

\* C7: line-band mask value, line_width >= 1: outside the protect-center disc
\* the mask at (y, x) is R(y - h//2) * R(x - w//2), and the reduction applied
\* at an offset never grows as the offset grows beyond line_width.
C7_LineBand ==
    (Done /\ method = "lines" /\ line_width >= 1) =>
        /\ \A b \in Outside : mask[b] = FMul(R(b[1] - center_y), R(b[2] - center_x))
        /\ \A d \in line_width .. 3 * line_width :
              FLe(Reduction(d + 1, line_width, attenuation),
                  Reduction(d, line_width, attenuation))

\* a bin in the falloff zone of the row band and outside the column band
C7_Witness ==
    /\ Done /\ method = "lines" /\ line_width = 2 /\ attenuation = <<99, 100>>
    /\ \E b \in Outside :
          /\ Abs(b[1] - center_y) = 3
          /\ Abs(b[2] - center_x) = 1
          /\ mask[b] = FMul(<<101, 200>>, <<1, 100>>)

\* C8 as claimed: with line_width = 0 the center row and the center column
\* are each multiplied by (1 - attenuation) outside the protect-center disc.
C8_CenterLinesAttenuated ==
    (Done /\ method = "lines" /\ line_width = 0) =>
        \A b \in Outside :
            mask[b] = FMul(IF b[1] = center_y THEN OneMinus(attenuation) ELSE One,
                           IF b[2] = center_x THEN OneMinus(attenuation) ELSE One)

\* C8 amended: with line_width = 0 neither band loop runs: every bin of the
\* mask is 1.0 at every stage, and no division by zero has happened.
C8_NoBandAtWidthZero ==
    (method = "lines" /\ line_width = 0) => \A b \in Bins : mask[b] = One

\* width 0, a non-zero attenuation and a center-row bin outside the disc
C8_Witness ==
    /\ Done /\ method = "lines" /\ line_width = 0 /\ attenuation # Zero
    /\ \E b \in Outside : b[1] = center_y /\ mask[b] = One

\* C9: peak-notch with notch_radius = 0: the mask is built without a
\* division by zero, is 0 at exactly the detected peak bins and 1.0 elsewhere.
C9_RadiusZero ==
    (Done /\ method = "peaks" /\ notch_radius = 0) =>
        \A b \in Bins :
            /\ mask[b] # DivByZero
            /\ mask[b] = IF b \in peaks THEN Zero ELSE One

\* radius 0 with some, but not all, bins outside the disc detected as peaks
C9_Witness ==
    /\ Done /\ method = "peaks" /\ notch_radius = 0
    /\ peaks # {} /\ Outside \ peaks # {}
    /\ \E b \in peaks : mask[b] = Zero

\* the magnitudes of the bins outside the disc only
OutsideMagnitudes == [b \in Outside |-> magnitude[b]]

\* C10: the threshold is the percentile of the magnitudes outside the
\* protect-center disc only (the bins inside are not part of the sample):
\* it separates the bins outside the disc as that percentile does, and at
\* threshold_percentile = 0 it is the smallest magnitude outside the disc.
C10_ThresholdOutsideOnly ==
    (method = "peaks" /\ pc \in {"peaks", "notch", "done"} /\ Outside # {}) =>
        LET t == Percentile(OutsideMagnitudes, threshold_percentile)
        IN  /\ \A b \in Outside : Above(magnitude[b], threshold) <=> Above(magnitude[b], t)
            /\ threshold_percentile = 0 => threshold.lo = t.lo

(***************************************************************************)
(* Properties of fft_remove_pattern (SpecFilter).                          *)
(***************************************************************************)
\* the single-channel filter, spelled out
SingleChannel(channel) ==
    IF method = "lines"
    THEN ApplyMask(Forward(channel, h, w),
                   LineMask(h, w, line_width, protect_center, attenuation), h, w)
    ELSE LET f_shift == Forward(channel, h, w)
         IN  ApplyMask(f_shift,
                       PeakMask(h, w, MagnitudeOf(f_shift, h, w), threshold_percentile,
                                notch_radius, protect_center), h, w)

\* C4: the returned grid has the input's H, W and channel count, for a
\* grayscale and for a colour input; output channel ch is the single-channel
\* filter of input channel ch alone (while the loop runs: of the channels
\* already visited, the others still hold the zeros of the allocation).
C4_ShapeAndChannels ==
    /\ pc = "returned" => DOMAIN result = DOMAIN image
    /\ (pc = "returned" /\ gray) => result = SingleChannel(image)
    /\ (pc \in {"loop", "returned"} /\ ~gray) =>
          /\ DOMAIN result = DOMAIN image
          /\ \A ch \in 0 .. channels - 1 :
                LET out == [b \in Bins |-> result[<<b[1], b[2], ch>>]]
                    inp == [b \in Bins |-> image[<<b[1], b[2], ch>>]]
                IN  out = IF ch < c THEN SingleChannel(inp) ELSE [b \in Bins |-> Real(0, 0, 1)]

\* a returned colour image of two channels whose outputs differ
C4_Witness ==
    /\ pc = "returned" /\ ~gray /\ channels = 2 /\ h = 3 /\ w = 2
    /\ \E b \in Bins : result[<<b[1], b[2], 0>>] # result[<<b[1], b[2], 1>>]
    /\ DOMAIN result = DOMAIN image

\* the channel filtered last: the image itself, or channel c - 1 of it
LastIn == IF gray THEN image ELSE [b \in Bins |-> image[<<b[1], b[2], c - 1>>]]
LastOut == IF gray THEN result ELSE [b \in Bins |-> result[<<b[1], b[2], c - 1>>]]
Filtered == (gray /\ pc = "returned") \/ (~gray /\ pc = "loop" /\ c > 0)

RECURSIVE SumOf(_, _)
SumOf(x, i) == IF i >= h * w THEN 0 ELSE x[BinAt(i, w)] + SumOf(x, i + 1)

\* sanity of the model: on the grids of SpecFilter every squared magnitude is
\* an integer (its sqrt(3) part is 0)
MagnitudesRational ==
    Filtered => \A b \in Bins : Abs2Irrational(Forward(LastIn, h, w)[b]) = 0

\* C5: identity round trip: the forward step puts the DC term (the sum of
\* the samples) at index (h//2, w//2), the inverse shift returns every bin to
\* its original index, and a channel filtered with an all-ones mask comes
\* back equal to the input, for even and odd grid sides.
C5_RoundTrip ==
    Filtered =>
        LET f_shift == Forward(LastIn, h, w)
        IN  /\ f_shift[DC] = <<SumOf(LastIn, 0), 0, 0, 0>>
            /\ ifftshift(f_shift, h, w) = fft2(LastIn, h, w)
            /\ mask = Ones(h, w) => \A b \in Bins : LastOut[b] = Real(LastIn[b], 0, 1)

\* an all-ones mask on a grid with an odd and an even side, and a channel
\* that is not flat
C5_Witness ==
    /\ Filtered /\ mask = Ones(h, w) /\ h = 3 /\ w = 2
    /\ \E a \in Bins : \E b \in Bins : LastIn[a] # LastIn[b]
    /\ \A b \in Bins : LastOut[b] = Real(LastIn[b], 0, 1)

====
